---- MODULE Spec2Model ----
(***************************************************************************)
(* Model of the TurboMIDI protocol engine (src/TurboMidi.hpp): the SysEx   *)
(* codec, the capability set, the byte reassembler, the slave reactions,   *)
(* the master's blocking negotiateSpeed and the active-sensing watchdog.   *)
(* Bytes are integers 0..255, times are 32-bit unsigned milliseconds.      *)
(***************************************************************************)
EXTENDS Integers, Sequences, FiniteSets, TLC

(* ------------------------------------------------------------------ *)
(* Wire constants                                                      *)
(* ------------------------------------------------------------------ *)
SYSEX_START == 240
SYSEX_END == 247
ACTIVE_SENSING == 254
ELEKTRON_ID == <<0, 32, 60, 0, 0>>

SPEED_REQ == 16
SPEED_ANSWER == 17
SPEED_NEG == 18
SPEED_ACK == 19
SPEED_TEST == 20
SPEED_RESULT == 21
SPEED_TEST2 == 22
SPEED_RESULT2 == 23
SPEED_PUSH == 32

SPEED_1X == 1
SPEED_2X == 2
SPEED_3_3X == 3
SPEED_4X == 4
SPEED_5X == 5
SPEED_6_6X == 6
SPEED_8X == 7
SPEED_10X == 8
SPEED_13_3X == 9
SPEED_16X == 10
SPEED_20X == 11

DeviceRole == {"MASTER", "SLAVE", "ANY"}
TestState == {"IDLE", "WAITING_FOR_TEST", "WAITING_FOR_TEST2"}

BASE_BAUD == 31250
WATCHDOG_MS == 300
ACTIVE_SENSE_MS == 250
TEST_WAIT_MS == 30
BREATH_MS == 10
BREATH_BYTES == 16
POLL_MS == 1
RX_CHUNK == 256
DEFAULT_TIMEOUT_MS == 30

(* ------------------------------------------------------------------ *)
(* Fixed-width arithmetic                                              *)
(* ------------------------------------------------------------------ *)
Pow2(n) == 2 ^ n
\* A uint32_t is kept as its two 16-bit halves, so that the arithmetic below is
\* exactly the machine's modulo 2^32.
HALF == 65536
U32(hi, lo) == [hi |-> hi, lo |-> lo]
Zero32 == U32(0, 0)
\* uint32_t a + ms, for 0 <= ms < 2^16
Add32(a, ms) ==
    U32((a.hi + ((a.lo + ms) \div HALF)) % HALF, (a.lo + ms) % HALF)
\* uint32_t a - b
Sub32(a, b) ==
    U32((a.hi - b.hi - (IF a.lo < b.lo THEN 1 ELSE 0) + HALF) % HALF,
        (a.lo - b.lo + HALF) % HALF)
\* uint32_t d > n and d < n, for 0 <= n < 2^16
Gt32(d, n) == d.hi > 0 \/ d.lo > n
Lt32(d, n) == d.hi = 0 /\ d.lo < n
\* (m & (1 << k)) != 0 on a uint8_t
\* the element of a one-element set: The({F(x) : x \in {v}}) is F(v) with v
\* worked out once
The(S) == CHOOSE x \in S : TRUE

TestBit(m, k) == (m \div Pow2(k)) % 2 = 1
\* m | (1 << k) on a uint8_t
SetBit(m, k) == IF TestBit(m, k) THEN m ELSE m + Pow2(k)

(* ------------------------------------------------------------------ *)
(* SpeedConfig                                                         *)
(* ------------------------------------------------------------------ *)
EmptyConfig == [mask1 |-> 0, mask2 |-> 0, cert1 |-> 0, cert2 |-> 0]

\* the switch of addSpeed/hasSpeed/isCertified: which byte and bit a speed uses
InMask1(speed) == speed >= SPEED_2X /\ speed <= SPEED_10X
InMask2(speed) == speed >= SPEED_13_3X /\ speed <= SPEED_20X
BitOf(speed) == IF InMask1(speed) THEN speed - SPEED_2X ELSE speed - SPEED_13_3X

\* variant of addSpeed that writes the certification bit whatever the flag
AddSpeedOverwrites(cfg, speed, certified) ==
    IF InMask1(speed)
    THEN [cfg EXCEPT !.mask1 = SetBit(@, BitOf(speed)),
                     !.cert1 = IF certified THEN SetBit(@, BitOf(speed))
                               ELSE IF TestBit(@, BitOf(speed)) THEN @ - Pow2(BitOf(speed))
                               ELSE @]
    ELSE IF InMask2(speed)
    THEN [cfg EXCEPT !.mask2 = SetBit(@, BitOf(speed)),
                     !.cert2 = IF certified THEN SetBit(@, BitOf(speed))
                               ELSE IF TestBit(@, BitOf(speed)) THEN @ - Pow2(BitOf(speed))
                               ELSE @]
    ELSE cfg

AddSpeed(cfg, speed, certified) ==
    IF InMask1(speed)
    THEN [cfg EXCEPT !.mask1 = SetBit(@, BitOf(speed)),
                     !.cert1 = IF certified THEN SetBit(@, BitOf(speed)) ELSE @]
    ELSE IF InMask2(speed)
    THEN [cfg EXCEPT !.mask2 = SetBit(@, BitOf(speed)),
                     !.cert2 = IF certified THEN SetBit(@, BitOf(speed)) ELSE @]
    ELSE cfg

HasSpeed(cfg, speed) ==
    IF InMask1(speed) THEN TestBit(cfg.mask1, BitOf(speed))
    ELSE IF InMask2(speed) THEN TestBit(cfg.mask2, BitOf(speed))
    ELSE FALSE

IsCertified(cfg, speed) ==
    IF InMask1(speed) THEN TestBit(cfg.cert1, BitOf(speed))
    ELSE IF InMask2(speed) THEN TestBit(cfg.cert2, BitOf(speed))
    ELSE FALSE

(* ------------------------------------------------------------------ *)
(* CommandBuilder                                                      *)
(* ------------------------------------------------------------------ *)
TEST_PATTERN == <<85, 85, 85, 85, 0, 0, 0, 0>>

BuildCommand(cmd, payload) ==
    <<SYSEX_START>> \o ELEKTRON_ID \o <<cmd>> \o payload \o <<SYSEX_END>>

BuildSpeedReq == BuildCommand(SPEED_REQ, <<>>)
BuildSpeedAnswer(cfg) ==
    BuildCommand(SPEED_ANSWER, <<cfg.mask1, cfg.mask2, cfg.cert1, cfg.cert2>>)
BuildSpeedNeg(testSpeed, targetSpeed) ==
    BuildCommand(SPEED_NEG, <<testSpeed, targetSpeed>>)
BuildSpeedAck == BuildCommand(SPEED_ACK, <<>>)
BuildSpeedTest == BuildCommand(SPEED_TEST, TEST_PATTERN)
BuildSpeedResult == BuildCommand(SPEED_RESULT, TEST_PATTERN)
BuildSpeedTest2 == BuildCommand(SPEED_TEST2, <<>>)
BuildSpeedResult2 == BuildCommand(SPEED_RESULT2, <<>>)
BuildSpeedPush(speed) == BuildCommand(SPEED_PUSH, <<speed>>)

(* ------------------------------------------------------------------ *)
(* Speed table                                                         *)
(* ------------------------------------------------------------------ *)
GetBaudRate(speed) ==
    CASE speed = SPEED_1X    -> 31250
      [] speed = SPEED_2X    -> 62500
      [] speed = SPEED_3_3X  -> 103125
      [] speed = SPEED_4X    -> 125000
      [] speed = SPEED_5X    -> 156250
      [] speed = SPEED_6_6X  -> 206250
      [] speed = SPEED_8X    -> 250000
      [] speed = SPEED_10X   -> 312500
      [] speed = SPEED_13_3X -> 415625
      [] speed = SPEED_16X   -> 500000
      [] speed = SPEED_20X   -> 625000
      [] OTHER               -> 31250

\* variant of getNextHigherSpeed that never finds a higher speed
GetNextHigherSpeedNone(speed) == speed

GetNextHigherSpeed(speed) == IF speed < SPEED_20X THEN speed + 1 ELSE speed

(* ------------------------------------------------------------------ *)
(* What an engine does to its platform and callbacks, in order          *)
(* ------------------------------------------------------------------ *)
\* sendMidiData(bytes), sent while the transport was at bit rate baud
EvTx(bytes, baud) == [t |-> "tx", bytes |-> bytes, n |-> baud]
\* setBaudRate(rate)
EvBaud(rate) == [t |-> "baud", bytes |-> <<>>, n |-> rate]
\* onSpeedChanged(speed)
EvChanged(speed) == [t |-> "changed", bytes |-> <<>>, n |-> speed]
\* onSpeedRequest()
EvRequest == [t |-> "request", bytes |-> <<>>, n |-> 0]

(* ------------------------------------------------------------------ *)
(* TurboMIDI engine: fields of the class plus the platform's bit rate   *)
(* and the effects (ev) of the operation in progress                    *)
(* ------------------------------------------------------------------ *)
NewEngine(role) ==
    [role |-> role,
     localConfig |-> AddSpeed(EmptyConfig, SPEED_1X, TRUE),
     currentSpeed |-> SPEED_1X,
     lastActiveSenseTime |-> Zero32,
     lastMessageTime |-> Zero32,
     incomingBuffer |-> <<>>,
     testState |-> "IDLE",
     pendingTestSpeed |-> SPEED_1X,
     pendingTargetSpeed |-> SPEED_1X,
     baud |-> BASE_BAUD,
     ev |-> <<>>]

SendMidiData(e, bytes) == [e EXCEPT !.ev = Append(@, EvTx(bytes, e.baud))]

SendCommand(e, cmd) == SendMidiData(e, cmd)

\* variant of setSpeed that leaves the transport's bit rate alone
SetSpeedKeepsBaud(e, speed) ==
    [e EXCEPT !.currentSpeed = speed,
              !.ev = @ \o <<EvChanged(speed)>>]

SetSpeed(e, speed) ==
    [e EXCEPT !.currentSpeed = speed,
              !.baud = GetBaudRate(speed),
              !.ev = @ \o <<EvBaud(GetBaudRate(speed)), EvChanged(speed)>>]

SetSupportedSpeed(e, speed, certified) ==
    [e EXCEPT !.localConfig = AddSpeed(@, speed, certified)]

\* variant of sendActiveSense that does not look at the current speed
SendActiveSenseUngated(e, now) ==
    [SendMidiData(e, <<ACTIVE_SENSING>>) EXCEPT !.lastActiveSenseTime = now]

SendActiveSense(e, now) ==
    IF e.currentSpeed # SPEED_1X
    THEN [SendMidiData(e, <<ACTIVE_SENSING>>) EXCEPT !.lastActiveSenseTime = now]
    ELSE e

\* variant of checkTimeouts whose watchdog fires at 300 ms already
CheckTimeoutsAtLeast(e, now) ==
    LET e1 == IF e.currentSpeed # SPEED_1X
                 /\ Gt32(Sub32(now, e.lastMessageTime), WATCHDOG_MS - 1)
              THEN SetSpeed(e, SPEED_1X)
              ELSE e
    IN  IF e1.currentSpeed # SPEED_1X
           /\ Gt32(Sub32(now, e1.lastActiveSenseTime), ACTIVE_SENSE_MS)
        THEN SendActiveSense(e1, now)
        ELSE e1

\* variant of checkTimeouts without the watchdog
CheckTimeoutsKeepAliveOnly(e, now) ==
    IF e.currentSpeed # SPEED_1X
       /\ Gt32(Sub32(now, e.lastActiveSenseTime), ACTIVE_SENSE_MS)
    THEN SendActiveSense(e, now)
    ELSE e

\* variant of checkTimeouts whose keep-alive is due at 250 ms already
CheckTimeoutsKeepAliveAtLeast(e, now) ==
    LET e1 == IF e.currentSpeed # SPEED_1X
                 /\ Gt32(Sub32(now, e.lastMessageTime), WATCHDOG_MS)
              THEN SetSpeed(e, SPEED_1X)
              ELSE e
    IN  IF e1.currentSpeed # SPEED_1X
           /\ Gt32(Sub32(now, e1.lastActiveSenseTime), ACTIVE_SENSE_MS - 1)
        THEN SendActiveSense(e1, now)
        ELSE e1

CheckTimeouts(e, now) ==
    LET e1 == IF e.currentSpeed # SPEED_1X
                 /\ Gt32(Sub32(now, e.lastMessageTime), WATCHDOG_MS)
              THEN SetSpeed(e, SPEED_1X)
              ELSE e
    IN  IF e1.currentSpeed # SPEED_1X
           /\ Gt32(Sub32(now, e1.lastActiveSenseTime), ACTIVE_SENSE_MS)
        THEN SendActiveSense(e1, now)
        ELSE e1

\* variant of the header check that accepts any manufacturer id
ValidHeaderAnyMaker(buf) ==
    /\ Len(buf) >= 8
    /\ buf[1] = SYSEX_START
    /\ buf[Len(buf)] = SYSEX_END

\* the validity checks at the head of processCompleteMessage
ValidHeader(buf) ==
    /\ Len(buf) >= 8
    /\ buf[1] = SYSEX_START
    /\ buf[Len(buf)] = SYSEX_END
    /\ \A i \in 1..Len(ELEKTRON_ID) : buf[i + 1] = ELEKTRON_ID[i]

\* incomingBuffer_[7 .. 14] against the fixed pattern
PatternOk(buf) == \A i \in 1..Len(TEST_PATTERN) : buf[7 + i] = TEST_PATTERN[i]

\* variant of the SPEED_REQ handler that answers whatever the role
OnSpeedReqAnyRole(e) ==
    [SendCommand(e, BuildSpeedAnswer(e.localConfig)) EXCEPT !.ev = Append(@, EvRequest)]

OnSpeedReq(e) ==
    IF e.role # "MASTER"
    THEN [SendCommand(e, BuildSpeedAnswer(e.localConfig))
            EXCEPT !.ev = Append(@, EvRequest)]
    ELSE e

\* variant of the SPEED_NEG handler that always asks for the live test
OnSpeedNegAlwaysTests(e) ==
    LET buf == e.incomingBuffer
    IN  IF e.role # "MASTER" /\ Len(buf) >= 10 /\ HasSpeed(e.localConfig, buf[9])
        THEN [SendCommand(e, BuildSpeedAck)
                EXCEPT !.pendingTestSpeed = buf[8],
                       !.pendingTargetSpeed = buf[9],
                       !.testState = "WAITING_FOR_TEST"]
        ELSE e

OnSpeedNeg(e) ==
    LET buf == e.incomingBuffer
        testSpeed == buf[8]
        targetSpeed == buf[9]
    IN  IF e.role # "MASTER" /\ Len(buf) >= 10
        THEN IF HasSpeed(e.localConfig, targetSpeed)
             THEN LET e1 == SendCommand(e, BuildSpeedAck)
                  IN  IF targetSpeed = SPEED_1X
                         \/ (IsCertified(e.localConfig, targetSpeed)
                             /\ testSpeed = targetSpeed)
                      THEN SetSpeed(e1, targetSpeed)
                      ELSE [e1 EXCEPT !.pendingTestSpeed = testSpeed,
                                      !.pendingTargetSpeed = targetSpeed,
                                      !.testState = "WAITING_FOR_TEST"]
             ELSE e
        ELSE e

\* variant of the SPEED_TEST handler that answers without changing speed
OnSpeedTestStays(e) ==
    LET buf == e.incomingBuffer
    IN  IF e.role # "MASTER" /\ e.testState = "WAITING_FOR_TEST" /\ Len(buf) >= 16
        THEN IF PatternOk(buf)
             THEN [SendCommand(e, BuildSpeedResult)
                     EXCEPT !.testState = "WAITING_FOR_TEST2"]
             ELSE [SetSpeed(e, SPEED_1X) EXCEPT !.testState = "IDLE"]
        ELSE e

\* variant of the SPEED_TEST handler that does not look at the pattern
OnSpeedTestAnyPattern(e) ==
    LET buf == e.incomingBuffer
    IN  IF e.role # "MASTER" /\ e.testState = "WAITING_FOR_TEST" /\ Len(buf) >= 16
        THEN [SendCommand(SetSpeed(e, e.pendingTestSpeed), BuildSpeedResult)
                EXCEPT !.testState = "WAITING_FOR_TEST2"]
        ELSE e

OnSpeedTest(e) ==
    LET buf == e.incomingBuffer
    IN  IF e.role # "MASTER" /\ e.testState = "WAITING_FOR_TEST" /\ Len(buf) >= 16
        THEN IF PatternOk(buf)
             THEN [SendCommand(SetSpeed(e, e.pendingTestSpeed), BuildSpeedResult)
                     EXCEPT !.testState = "WAITING_FOR_TEST2"]
             ELSE [SetSpeed(e, SPEED_1X) EXCEPT !.testState = "IDLE"]
        ELSE e

\* variant of the SPEED_TEST2 handler that switches before it answers
OnSpeedTest2CommitsFirst(e) ==
    IF e.role # "MASTER" /\ e.testState = "WAITING_FOR_TEST2"
    THEN [SendCommand(SetSpeed(e, e.pendingTargetSpeed), BuildSpeedResult2)
            EXCEPT !.testState = "IDLE"]
    ELSE e

\* variant of the SPEED_TEST2 handler that does not look at the test state
OnSpeedTest2AnyState(e) ==
    IF e.role # "MASTER"
    THEN [SetSpeed(SendCommand(e, BuildSpeedResult2), e.pendingTargetSpeed)
            EXCEPT !.testState = "IDLE"]
    ELSE e

OnSpeedTest2(e) ==
    IF e.role # "MASTER" /\ e.testState = "WAITING_FOR_TEST2"
    THEN [SetSpeed(SendCommand(e, BuildSpeedResult2), e.pendingTargetSpeed)
            EXCEPT !.testState = "IDLE"]
    ELSE e

\* variant of the SPEED_PUSH handler that does not consult localConfig_
OnSpeedPushUnchecked(e) ==
    LET buf == e.incomingBuffer
    IN  IF Len(buf) >= 9 THEN SetSpeed(e, buf[8]) ELSE e

OnSpeedPush(e) ==
    LET buf == e.incomingBuffer
    IN  IF Len(buf) >= 9 /\ HasSpeed(e.localConfig, buf[8])
        THEN SetSpeed(e, buf[8])
        ELSE e

ProcessCompleteMessage(e) ==
    LET buf == e.incomingBuffer
    IN  IF ~ValidHeader(buf) THEN e
        ELSE CASE buf[7] = SPEED_REQ   -> OnSpeedReq(e)
               [] buf[7] = SPEED_NEG   -> OnSpeedNeg(e)
               [] buf[7] = SPEED_TEST  -> OnSpeedTest(e)
               [] buf[7] = SPEED_TEST2 -> OnSpeedTest2(e)
               [] buf[7] = SPEED_PUSH  -> OnSpeedPush(e)
               [] OTHER                -> e

ProcessIncomingByte(e, byte, now) ==
    LET e2 == The({IF byte = SYSEX_END THEN ProcessCompleteMessage(e1) ELSE e1 :
                     e1 \in {[e EXCEPT !.lastMessageTime = now,
                                       !.incomingBuffer =
                                           Append(IF byte = SYSEX_START THEN <<>> ELSE @,
                                                  byte)]}})
    IN  IF byte = ACTIVE_SENSING THEN [e2 EXCEPT !.lastMessageTime = now] ELSE e2

RECURSIVE ProcessBytes(_, _, _)
ProcessBytes(e, bytes, now) ==
    IF bytes = <<>> THEN e
    ELSE ProcessBytes(ProcessIncomingByte(e, Head(bytes), now), Tail(bytes), now)

\* handleIncomingData with receiveMidiData returning bytes (at most RX_CHUNK)
HandleIncomingData(e, bytes, now) ==
    The({CheckTimeouts(e1, now) : e1 \in {ProcessBytes(e, bytes, now)}})

\* variant of pushSpeed without the role check
PushSpeedAnyRole(e, speed) == SetSpeed(SendCommand(e, BuildSpeedPush(speed)), speed)

PushSpeed(e, speed) ==
    IF e.role = "SLAVE" THEN e
    ELSE SetSpeed(SendCommand(e, BuildSpeedPush(speed)), speed)

(* ------------------------------------------------------------------ *)
(* The master's view of incomingBuffer_ while it waits                  *)
(* ------------------------------------------------------------------ *)
RECURSIVE ParsedFrom(_, _, _)
\* the loop of getParsedMessages: rest still to scan, cur = currentMsg
ParsedFrom(rest, cur, msgs) ==
    IF rest = <<>> THEN msgs
    ELSE LET byte == Head(rest)
         IN  The({ParsedFrom(Tail(rest), cur1,
                             IF byte = SYSEX_END THEN Append(msgs, cur1) ELSE msgs) :
                     cur1 \in {Append(IF byte = SYSEX_START THEN <<>> ELSE cur, byte)}})

GetParsedMessages(buf) == ParsedFrom(buf, <<>>, <<>>)

IsSpeedAnswer(msg) == Len(msg) >= 12 /\ msg[7] = SPEED_ANSWER
IsAck(msg) == Len(msg) >= 8 /\ msg[7] = SPEED_ACK
IsSpeedResult(msg) ==
    /\ Len(msg) >= 16
    /\ msg[7] = SPEED_RESULT
    /\ \A i \in 1..Len(TEST_PATTERN) : msg[7 + i] = TEST_PATTERN[i]
IsSpeedResult2(msg) == Len(msg) >= 8 /\ msg[7] = SPEED_RESULT2

\* parseSpeedAnswer: found, and the config read from the first match
FirstSpeedAnswer(msgs) ==
    LET hits == {i \in 1..Len(msgs) : IsSpeedAnswer(msgs[i])}
    IN  IF hits = {} THEN [found |-> FALSE, config |-> EmptyConfig]
        ELSE LET msg == msgs[CHOOSE i \in hits : \A j \in hits : i <= j]
             IN  [found |-> TRUE,
                  config |-> [mask1 |-> msg[8], mask2 |-> msg[9],
                              cert1 |-> msg[10], cert2 |-> msg[11]]]

ParseSpeedAnswer(buf) == The({FirstSpeedAnswer(msgs) : msgs \in {GetParsedMessages(buf)}})

ParseAck(buf) ==
    \E msgs \in {GetParsedMessages(buf)} : \E i \in 1..Len(msgs) : IsAck(msgs[i])
ParseSpeedResult(buf) ==
    \E msgs \in {GetParsedMessages(buf)} : \E i \in 1..Len(msgs) : IsSpeedResult(msgs[i])
ParseSpeedResult2(buf) ==
    \E msgs \in {GetParsedMessages(buf)} : \E i \in 1..Len(msgs) : IsSpeedResult2(msgs[i])

(* ------------------------------------------------------------------ *)
(* negotiateSpeed, one step per pass of its wait loops                  *)
(* ------------------------------------------------------------------ *)
\* locals of a negotiateSpeed call in progress: where it is, its arguments,
\* testSpeed, and the startTime of the wait it is in
NegIdle ==
    [pc |-> "idle", targetSpeed |-> SPEED_1X, timeoutMs |-> 0,
     testSpeed |-> SPEED_1X, startTime |-> Zero32]

\* outcomes of one step: return ok, enter the next wait (startTime := now,
\* after delay ms of delayMs), or stay in the wait after delayMs(POLL_MS)
Return(e, ok, why) ==
    [e |-> e, pc |-> "idle", testSpeed |-> SPEED_1X, restart |-> FALSE,
     delay |-> 0, result |-> IF ok THEN "true" ELSE "false", fail |-> why]
Goto(e, pc, testSpeed, delay) ==
    [e |-> e, pc |-> pc, testSpeed |-> testSpeed, restart |-> TRUE,
     delay |-> delay, result |-> "none", fail |-> "none"]
Stay(e, n) ==
    [e |-> e, pc |-> n.pc, testSpeed |-> n.testSpeed, restart |-> FALSE,
     delay |-> POLL_MS, result |-> "none", fail |-> "none"]

\* variant of the loop condition that ignores the clock
WaitingForever(n, limit, now) == TRUE

\* while (getMillis() - startTime < timeoutMs)
Waiting(n, limit, now) == Lt32(Sub32(now, n.startTime), limit)

\* negotiateSpeed up to the first wait
NegotiateEntry(e) ==
    IF e.role = "SLAVE" THEN Return(e, FALSE, "role")
    ELSE Goto(SendCommand(e, BuildSpeedReq), "waitAnswer", SPEED_1X, 0)

\* variant of the step after the answer that switches before it checks
AfterAnswerCommitsFirst(e, n, remoteConfig) ==
    LET targetSpeed == n.targetSpeed
        untested == ~IsCertified(remoteConfig, targetSpeed) /\ targetSpeed # SPEED_1X
        testSpeed == IF untested THEN GetNextHigherSpeed(targetSpeed) ELSE targetSpeed
    IN  IF ~HasSpeed(remoteConfig, targetSpeed)
        THEN Return(SetSpeed(e, targetSpeed), FALSE, "unsupported")
        ELSE IF untested /\ testSpeed = targetSpeed THEN Return(e, FALSE, "no_higher")
        ELSE Goto(SendCommand(e, BuildSpeedNeg(testSpeed, targetSpeed)),
                  "waitAck", testSpeed, 0)

\* negotiateSpeed from the answer to the sending of SPEED_NEG
AfterAnswer(e, n, remoteConfig) ==
    LET targetSpeed == n.targetSpeed
        untested == ~IsCertified(remoteConfig, targetSpeed) /\ targetSpeed # SPEED_1X
        testSpeed == IF untested THEN GetNextHigherSpeed(targetSpeed) ELSE targetSpeed
    IN  IF ~HasSpeed(remoteConfig, targetSpeed) THEN Return(e, FALSE, "unsupported")
        ELSE IF untested /\ testSpeed = targetSpeed THEN Return(e, FALSE, "no_higher")
        ELSE Goto(SendCommand(e, BuildSpeedNeg(testSpeed, targetSpeed)),
                  "waitAck", testSpeed, 0)

\* one pass of waitForSpeedAnswer; rx is the engine e after the pass's
\* handleIncomingData()
WaitAnswerStep(e, rx, n, now) ==
    IF ~Waiting(n, n.timeoutMs, now) THEN Return(e, FALSE, "no_answer")
    ELSE The({IF answer.found THEN AfterAnswer(rx, n, answer.config) ELSE Stay(rx, n) :
                answer \in {ParseSpeedAnswer(rx.incomingBuffer)}})

\* negotiateSpeed after the ack: the head of performSpeedTest, or the final setSpeed
AfterAck(e, n) ==
    IF n.targetSpeed # SPEED_1X /\ n.testSpeed # n.targetSpeed
    THEN Goto(SendMidiData(e, [i \in 1..BREATH_BYTES |-> 0]), "breath",
              n.testSpeed, BREATH_MS)
    ELSE Return(SetSpeed(e, n.targetSpeed), TRUE, "none")

\* one pass of waitForAck
WaitAckStep(e, rx, n, now) ==
    IF ~Waiting(n, n.timeoutMs, now) THEN Return(e, FALSE, "no_ack")
    ELSE IF ParseAck(rx.incomingBuffer) THEN AfterAck(rx, n) ELSE Stay(rx, n)

\* performSpeedTest after delayMs(10): switch to the test speed, send SPEED_TEST
BreathStep(e, n) ==
    Goto(SendCommand(SetSpeed(e, n.testSpeed), BuildSpeedTest), "waitResult",
         n.testSpeed, 0)

\* variant of the pass that gives up without going back to 1x
WaitResultStepNoRevert(e, rx, n, now) ==
    IF ~Waiting(n, TEST_WAIT_MS, now)
    THEN Return(e, FALSE, "no_result")
    ELSE IF ParseSpeedResult(rx.incomingBuffer)
         THEN Goto(SendCommand(rx, BuildSpeedTest2), "waitResult2", n.testSpeed, 0)
         ELSE Stay(rx, n)

\* one pass of waitForSpeedResult(30), with performSpeedTest's reaction
WaitResultStep(e, rx, n, now) ==
    IF ~Waiting(n, TEST_WAIT_MS, now)
    THEN Return(SetSpeed(e, SPEED_1X), FALSE, "no_result")
    ELSE IF ParseSpeedResult(rx.incomingBuffer)
         THEN Goto(SendCommand(rx, BuildSpeedTest2), "waitResult2", n.testSpeed, 0)
         ELSE Stay(rx, n)

\* one pass of waitForSpeedResult2(30); on success performSpeedTest sets the
\* target speed and negotiateSpeed sets it again
WaitResult2Step(e, rx, n, now) ==
    IF ~Waiting(n, TEST_WAIT_MS, now)
    THEN Return(SetSpeed(e, SPEED_1X), FALSE, "no_result2")
    ELSE IF ParseSpeedResult2(rx.incomingBuffer)
         THEN Return(SetSpeed(SetSpeed(rx, n.targetSpeed), n.targetSpeed), TRUE, "none")
         ELSE Stay(rx, n)

NegotiateStep(e, rx, n, now) ==
    CASE n.pc = "waitAnswer"  -> WaitAnswerStep(e, rx, n, now)
      [] n.pc = "waitAck"     -> WaitAckStep(e, rx, n, now)
      [] n.pc = "breath"      -> BreathStep(e, n)
      [] n.pc = "waitResult"  -> WaitResultStep(e, rx, n, now)
      [] n.pc = "waitResult2" -> WaitResult2Step(e, rx, n, now)

\* whether the step at n.pc calls receiveMidiData
Receives(n, now) ==
    \/ n.pc \in {"waitAnswer", "waitAck"} /\ Waiting(n, n.timeoutMs, now)
    \/ n.pc \in {"waitResult", "waitResult2"} /\ Waiting(n, TEST_WAIT_MS, now)

(* ------------------------------------------------------------------ *)
(* State                                                               *)
(* ------------------------------------------------------------------ *)
VARIABLES
    now,    \* the platform clock, getMillis()
    t0,     \* the clock when the engines were constructed
    eng,    \* the engines: "M" (the one the host drives) and its peer "S"
    link,   \* link[p]: bytes sent to p that p has not yet received
    neg,    \* the negotiateSpeed call of "M" in progress
    hist,   \* record of a call or scenario: its effects so far, how it returned
    phase   \* whose turn it is / how far a scenario has come

vars == <<now, t0, eng, link, neg, hist, phase>>

Peers == {"M", "S"}
NoBytes == [p \in Peers |-> <<>>]

HistNone ==
    [own |-> <<>>, entrySpeed |-> SPEED_1X, entryBaud |-> BASE_BAUD,
     heard |-> FALSE, rxCommit |-> FALSE, result |-> "none", fail |-> "none"]

\* an engine at the start of an operation: nothing done yet
Fresh(e) == [e EXCEPT !.ev = <<>>]

\* the bytes the events ev put on the wire, in order
RECURSIVE TxBytes(_)
TxBytes(ev) ==
    IF ev = <<>> THEN <<>>
    ELSE (IF Head(ev).t = "tx" THEN Head(ev).bytes ELSE <<>>) \o TxBytes(Tail(ev))

\* the events of ev of kind t, in order
RECURSIVE Only(_, _)
Only(ev, t) ==
    IF ev = <<>> THEN <<>>
    ELSE (IF Head(ev).t = t THEN <<Head(ev)>> ELSE <<>>) \o Only(Tail(ev), t)

\* the speeds ev committed to (setSpeed calls), in order
Committed(ev) == [i \in 1..Len(Only(ev, "changed")) |-> Only(ev, "changed")[i].n]

\* the SysEx frames ev transmitted, in order: sendCommand sends each frame whole
RECURSIVE SentFrames(_)
SentFrames(ev) ==
    IF ev = <<>> THEN <<>>
    ELSE (IF Head(ev).t = "tx" /\ Head(Head(ev).bytes) = SYSEX_START
          THEN <<Head(ev).bytes>> ELSE <<>>) \o SentFrames(Tail(ev))

\* ev after its first k events
Drop(ev, k) == SubSeq(ev, k + 1, Len(ev))

\* how many bytes follow the last end of frame in a byte stream
RECURSIVE Stray(_)
Stray(bytes) ==
    IF bytes = <<>> \/ bytes[Len(bytes)] = SYSEX_END THEN 0
    ELSE 1 + Stray(SubSeq(bytes, 1, Len(bytes) - 1))

\* milliseconds since construction (the model keeps it below 2^16)
Elapsed == Sub32(now, t0).lo

(* ------------------------------------------------------------------ *)
(* Bounds and input sets                                               *)
(* ------------------------------------------------------------------ *)
MaxElapsed == 301
MaxStray == 1
MaxArrival == 1
NearWrap == 20

StartTimes == {Zero32, U32(HALF - 1, HALF - NearWrap)}
TickDeltas == {250, 300, 301}
CfgSpeeds == {SPEED_4X}
PushSpeeds == {SPEED_1X, SPEED_8X}
Targets == {SPEED_1X, SPEED_4X, SPEED_20X}
Timeouts == {0, 3}

\* capability sets a peer may advertise
PeerConfigs ==
    {AddSpeed(EmptyConfig, SPEED_4X, TRUE),
     AddSpeed(AddSpeed(EmptyConfig, SPEED_4X, FALSE), SPEED_20X, FALSE)}

\* what a tick may receive
RxChunks ==
    {<<>>, <<ACTIVE_SENSING>>, BuildSpeedReq, BuildSpeedNeg(SPEED_5X, SPEED_4X),
     BuildSpeedNeg(SPEED_4X, SPEED_4X), BuildSpeedTest, BuildSpeedTest2,
     BuildSpeedPush(SPEED_4X), BuildSpeedPush(SPEED_1X)}

\* what a pass of a negotiateSpeed wait may receive
NegChunks ==
    {<<>>, BuildSpeedAck, BuildSpeedResult, BuildSpeedResult2,
     BuildSpeedPush(SPEED_4X)}
      \cup {BuildSpeedAnswer(c) : c \in PeerConfigs}

(* ------------------------------------------------------------------ *)
(* Operations of the host on engine "M"                                 *)
(* ------------------------------------------------------------------ *)
InitWith(roles, clocks) ==
    /\ now \in clocks
    /\ t0 = now
    /\ \E r \in roles : eng = [p \in Peers |-> NewEngine(IF p = "M" THEN r ELSE "SLAVE")]
    /\ link = NoBytes
    /\ neg = NegIdle
    /\ hist = HistNone

\* setSupportedSpeed(speed, certified)
SetSupported(p, speed, certified) ==
    /\ neg.pc = "idle"
    /\ eng' = [eng EXCEPT ![p] = SetSupportedSpeed(Fresh(@), speed, certified)]
    /\ UNCHANGED <<now, t0, link, neg, hist, phase>>

\* pushSpeed(speed)
Push(speed) ==
    /\ neg.pc = "idle"
    /\ eng' = [eng EXCEPT !["M"] = PushSpeed(Fresh(@), speed)]
    /\ UNCHANGED <<now, t0, link, neg, hist, phase>>

\* sendActiveSense()
ActiveSense ==
    /\ neg.pc = "idle"
    /\ eng' = [eng EXCEPT !["M"] = SendActiveSense(Fresh(@), now)]
    /\ UNCHANGED <<now, t0, link, neg, hist, phase>>

\* handleIncomingData(), the transport delivering bytes
Tick(p, bytes) ==
    /\ neg.pc = "idle"
    /\ Stray(eng[p].incomingBuffer \o bytes) <= MaxStray
    /\ eng' = [eng EXCEPT ![p] = HandleIncomingData(Fresh(@), bytes, now)]
    /\ UNCHANGED <<now, t0, link, neg, hist, phase>>

\* time passes between two calls of the host
Advance(d, limit) ==
    /\ neg.pc = "idle"
    /\ Elapsed + d <= limit
    /\ now' = Add32(now, d)
    /\ UNCHANGED <<t0, eng, link, neg, hist, phase>>

\* the host calls negotiateSpeed(targetSpeed, timeoutMs)
CallNegotiate(targetSpeed, timeoutMs) ==
    /\ neg.pc = "idle"
    /\ hist.result = "none"
    /\ LET e == eng["M"]
           o == NegotiateEntry(Fresh(e))
       IN  /\ eng' = [eng EXCEPT !["M"] = o.e]
           /\ neg' = [pc |-> o.pc, targetSpeed |-> targetSpeed, timeoutMs |-> timeoutMs,
                      testSpeed |-> targetSpeed, startTime |-> now]
           /\ hist' = [own |-> o.e.ev, entrySpeed |-> e.currentSpeed,
                       entryBaud |-> e.baud, heard |-> FALSE, rxCommit |-> FALSE,
                       result |-> o.result, fail |-> o.fail]
    /\ UNCHANGED <<now, t0>>

\* the call in progress takes one step, receiving bytes if it polls; own are the
\* effects of negotiateSpeed itself, as opposed to those of the receive path
StepNegotiate(bytes) ==
    /\ neg.pc # "idle"
    /\ \E e \in {Fresh(eng["M"])} :
       \E rx \in {IF Receives(neg, now) THEN HandleIncomingData(e, bytes, now) ELSE e} :
       \E o \in {NegotiateStep(e, rx, neg, now)} :
           /\ eng' = [eng EXCEPT !["M"] = o.e]
           /\ now' = Add32(now, o.delay)
           /\ neg' = [neg EXCEPT !.pc = o.pc,
                                 !.testSpeed = IF o.pc = "idle" THEN @ ELSE o.testSpeed,
                                 !.startTime = IF o.restart THEN now ELSE @]
           /\ hist' = [hist EXCEPT !.own = @ \o Drop(o.e.ev, Len(rx.ev)),
                                   !.heard = @ \/ bytes # <<>>,
                                   !.rxCommit = @ \/ Only(rx.ev, "baud") # <<>>,
                                   !.result = o.result,
                                   !.fail = o.fail]
    /\ UNCHANGED t0

(* ------------------------------------------------------------------ *)
(* Spec: one engine of any role, driven by its host while the clock     *)
(* runs and the peer sends whatever it likes                            *)
(* ------------------------------------------------------------------ *)
Init == InitWith(DeviceRole, {Zero32}) /\ phase = "host"

Next ==
    \/ \E s \in CfgSpeeds, c \in BOOLEAN : SetSupported("M", s, c)
    \/ \E s \in PushSpeeds : Push(s)
    \/ ActiveSense
    \/ \E bytes \in RxChunks : Tick("M", bytes)
    \/ \E d \in TickDeltas : Advance(d, MaxElapsed)

Spec == Init /\ [][Next]_vars

(* ------------------------------------------------------------------ *)
(* SpecNeg: a host that sets its engine up and then calls               *)
(* negotiateSpeed once, the peer answering anything or nothing          *)
(* ------------------------------------------------------------------ *)
InitNeg == InitWith(DeviceRole, StartTimes) /\ phase = "setup"

\* the peer is heard only in the first passes of a wait
MayArrive == Receives(neg, now) /\ Sub32(now, neg.startTime).lo <= MaxArrival

NegSetup ==
    /\ hist.result = "none"
    /\ \/ Push(SPEED_4X)
       \/ ActiveSense
       \/ SetSupported("M", SPEED_4X, TRUE)
       \/ \E bytes \in {BuildSpeedAck, BuildSpeedPush(SPEED_4X)}
                          \cup {BuildSpeedAnswer(c) : c \in PeerConfigs} :
             Tick("M", bytes)

NegCall ==
    /\ \E t \in Targets, ms \in Timeouts : CallNegotiate(t, ms)
    /\ UNCHANGED <<link, phase>>

NegStep ==
    /\ \E bytes \in IF MayArrive THEN NegChunks ELSE {<<>>} : StepNegotiate(bytes)
    /\ UNCHANGED <<link, phase>>

NextNeg == NegSetup \/ NegCall \/ NegStep

SpecNeg == InitNeg /\ [][NextNeg]_vars

(* ------------------------------------------------------------------ *)
(* SpecPair: a master and a slave on a lossless in-order link; the      *)
(* slave is configured, the master calls negotiateSpeed once, and the   *)
(* slave ticks whenever the master sleeps in delayMs                    *)
(* ------------------------------------------------------------------ *)
PairSpeeds == {SPEED_4X, SPEED_5X, SPEED_20X}
PairTimeouts == {1, 2, DEFAULT_TIMEOUT_MS}

InitPair ==
    /\ now \in StartTimes
    /\ t0 = now
    /\ \E rm \in {"MASTER", "ANY"}, rs \in {"SLAVE", "ANY"} :
          eng = [p \in Peers |-> NewEngine(IF p = "M" THEN rm ELSE rs)]
    /\ link = NoBytes
    /\ neg = NegIdle
    /\ hist = HistNone
    /\ phase = "M"

\* receiveMidiData(buffer, 256) on the bytes waiting for p
Received(p) == SubSeq(link[p], 1, IF Len(link[p]) < RX_CHUNK THEN Len(link[p]) ELSE RX_CHUNK)
Remaining(p) == SubSeq(link[p], Len(Received(p)) + 1, Len(link[p]))

PairConfigure ==
    /\ hist.result = "none"
    /\ \E s \in PairSpeeds, c \in BOOLEAN : SetSupported("S", s, c)

PairCall ==
    /\ \E t \in Targets, ms \in PairTimeouts : CallNegotiate(t, ms)
    /\ link' = [link EXCEPT !["S"] = @ \o TxBytes(eng'["M"].ev)]
    /\ UNCHANGED phase

PairMasterStep ==
    /\ phase = "M"
    /\ LET polls == Receives(neg, now)
       IN  /\ StepNegotiate(IF polls THEN Received("M") ELSE <<>>)
           /\ link' = [link EXCEPT !["M"] = IF polls THEN Remaining("M") ELSE @,
                                   !["S"] = @ \o TxBytes(eng'["M"].ev)]
    /\ phase' = IF neg'.pc # "idle" /\ now' # now THEN "S" ELSE "M"

PairSlaveTick ==
    /\ phase = "S"
    /\ eng' = [eng EXCEPT !["S"] = HandleIncomingData(Fresh(@), Received("S"), now)]
    /\ link' = [link EXCEPT !["S"] = Remaining("S"),
                            !["M"] = @ \o TxBytes(eng'["S"].ev)]
    /\ phase' = "M"
    /\ UNCHANGED <<now, t0, neg, hist>>

NextPair == PairConfigure \/ PairCall \/ PairMasterStep \/ PairSlaveTick

SpecPair == InitPair /\ [][NextPair]_vars

(* ------------------------------------------------------------------ *)
(* SpecFair: a negotiateSpeed call made by a host thread that keeps      *)
(* running, so the call in progress always takes its next step; before  *)
(* the call the engine may have been pushed to 4x and may hold one      *)
(* frame received earlier                                               *)
(* ------------------------------------------------------------------ *)
FairSetup ==
    /\ hist.result = "none"
    /\ \/ Push(SPEED_4X)
       \/ /\ eng["M"].incomingBuffer = <<>>
          /\ \E bytes \in {BuildSpeedAck} \cup {BuildSpeedAnswer(c) : c \in PeerConfigs} :
                Tick("M", bytes)

NextFair == FairSetup \/ NegCall \/ NegStep

SpecFair == InitNeg /\ [][NextFair]_vars /\ WF_vars(NegStep)

(* ------------------------------------------------------------------ *)
(* SpecSlave: an engine that answers (role SLAVE or ANY) is configured, *)
(* then receives SPEED_NEG, SPEED_TEST and SPEED_TEST2 in that order,   *)
(* one per tick, time passing in between                                *)
(* ------------------------------------------------------------------ *)
SlaveSpeeds == {SPEED_4X, SPEED_20X}
SlaveTests == {SPEED_1X, SPEED_4X, SPEED_5X}

InitSlave ==
    /\ now \in StartTimes
    /\ t0 = now
    /\ \E r \in {"SLAVE", "ANY"} :
          eng = [p \in Peers |-> NewEngine(IF p = "S" THEN r ELSE "MASTER")]
    /\ link = NoBytes
    /\ neg = NegIdle
    /\ hist = HistNone
    /\ phase = "configure"

SlaveConfigure ==
    /\ phase = "configure"
    /\ \/ \E s \in SlaveSpeeds, c \in BOOLEAN : SetSupported("S", s, c)
       \/ Tick("S", BuildSpeedPush(SPEED_4X))

SlaveAdvance ==
    /\ phase # "test2"
    /\ \E d \in TickDeltas : Advance(d, MaxElapsed)

\* a tick of the slave that receives frame; hist.own collects what the slave does
SlaveReceives(frame, before, after) ==
    /\ phase = before
    /\ phase' = after
    /\ eng' = [eng EXCEPT !["S"] = HandleIncomingData(Fresh(@), frame, now)]
    /\ hist' = IF before = "configure"
               THEN [HistNone EXCEPT !.own = eng'["S"].ev,
                                     !.entrySpeed = eng["S"].currentSpeed,
                                     !.entryBaud = eng["S"].baud]
               ELSE [hist EXCEPT !.own = @ \o eng'["S"].ev]

SlaveNeg ==
    /\ \E test \in SlaveTests, target \in Targets :
          /\ SlaveReceives(BuildSpeedNeg(test, target), "configure", "neg")
          /\ neg' = [neg EXCEPT !.testSpeed = test, !.targetSpeed = target]
    /\ UNCHANGED <<now, t0, link>>

SlaveTest ==
    /\ SlaveReceives(BuildSpeedTest, "neg", "test")
    /\ UNCHANGED <<now, t0, link, neg>>

SlaveTest2 ==
    /\ SlaveReceives(BuildSpeedTest2, "test", "test2")
    /\ UNCHANGED <<now, t0, link, neg>>

\* 16-byte SPEED_TEST frames whose payload is not the pattern
BadTests ==
    {BuildCommand(SPEED_TEST, <<84, 85, 85, 85, 0, 0, 0, 0>>),
     BuildCommand(SPEED_TEST, <<85, 85, 85, 85, 0, 0, 0, 1>>),
     BuildCommand(SPEED_TEST, <<0, 0, 0, 0, 85, 85, 85, 85>>)}

\* instead of the test frame the slave receives one with a damaged payload
SlaveBadTest ==
    /\ \E frame \in BadTests : SlaveReceives(frame, "neg", "bad")
    /\ UNCHANGED <<now, t0, link, neg>>

NextSlave ==
    SlaveConfigure \/ SlaveAdvance \/ SlaveNeg \/ SlaveTest \/ SlaveBadTest \/ SlaveTest2

SpecSlave == InitSlave /\ [][NextSlave]_vars

(* ------------------------------------------------------------------ *)
(* SpecSilence: an engine is driven by its host; at some point the peer *)
(* falls silent for good while the host keeps ticking and the clock      *)
(* keeps running                                                        *)
(* ------------------------------------------------------------------ *)
\* how long the model lets the clock run: past MaxElapsed by more than the
\* watchdog's 300 ms plus the longest step of the clock
Horizon == MaxElapsed + 2 * WATCHDOG_MS + 1

InitSilence == InitWith(DeviceRole, StartTimes) /\ phase = "live"

Live ==
    /\ phase = "live"
    /\ \/ SetSupported("M", SPEED_4X, FALSE)
       \/ Push(SPEED_8X)
       \/ \E bytes \in {<<ACTIVE_SENSING>>, BuildSpeedPush(SPEED_4X)} : Tick("M", bytes)
       \/ \E d \in TickDeltas : Advance(d, MaxElapsed)

FallSilent ==
    /\ phase = "live"
    /\ phase' = "silent"
    /\ UNCHANGED <<now, t0, eng, link, neg, hist>>

SilentTick == phase = "silent" /\ Tick("M", <<>>)

SilentAdvance == phase = "silent" /\ \E d \in TickDeltas : Advance(d, Horizon)

NextSilence == Live \/ FallSilent \/ SilentTick \/ SilentAdvance

SpecSilence ==
    InitSilence /\ [][NextSilence]_vars /\ WF_vars(SilentTick) /\ WF_vars(SilentAdvance)

(* ------------------------------------------------------------------ *)
(* SpecRx: the receive path of one engine of any role, fed well-formed  *)
(* frames, damaged frames and bytes between frames                      *)
(* ------------------------------------------------------------------ *)
SpeedIds == SPEED_1X..SPEED_20X

\* a frame of command cmd and the given payload under another manufacturer id
ForeignFrame(cmd, payload) ==
    <<SYSEX_START, 0, 32, 61, 0, 0, cmd>> \o payload \o <<SYSEX_END>>

\* a frame with extra bytes between its payload and its end
Padded(frame, extra) ==
    SubSeq(frame, 1, Len(frame) - 1) \o extra \o <<SYSEX_END>>

\* a frame whose end never arrives
Unterminated(frame) == SubSeq(frame, 1, Len(frame) - 1)

\* well-formed frames of the commands the receive path handles
RxValid ==
    {BuildSpeedPush(SPEED_4X), BuildSpeedReq, BuildSpeedNeg(SPEED_4X, SPEED_4X),
     BuildSpeedTest, BuildSpeedTest2}

\* byte sequences that are no frame of the protocol
RxMalformed ==
    {ForeignFrame(SPEED_PUSH, <<SPEED_4X>>), ForeignFrame(SPEED_REQ, <<>>),
     ForeignFrame(SPEED_TEST2, <<>>),
     <<SYSEX_START, 0, 32, 60, 0, 0, SYSEX_END>>,
     BuildCommand(127, <<>>),
     Unterminated(BuildSpeedPush(SPEED_4X)), Unterminated(BuildSpeedTest2)}

\* frames of a handled command that are longer than the command's length
RxOverlong ==
    {Padded(BuildSpeedPush(SPEED_4X), <<0>>), Padded(BuildSpeedReq, <<0>>),
     Padded(BuildSpeedNeg(SPEED_4X, SPEED_4X), <<0>>),
     Padded(BuildSpeedTest, <<0>>), Padded(BuildSpeedTest2, <<0>>)}

\* bytes that arrive outside any frame
RxStray == {<<SYSEX_END>>, <<ACTIVE_SENSING>>}

RxInputs == RxValid \cup RxMalformed \cup RxOverlong \cup RxStray \cup {<<>>}

InitRx == InitWith(DeviceRole, {Zero32}) /\ phase = "rx"

\* how many bytes follow the first end of frame in a byte stream
RECURSIVE Trailing(_)
Trailing(bytes) ==
    IF bytes = <<>> THEN 0
    ELSE IF Head(bytes) = SYSEX_END THEN Len(bytes) - 1
    ELSE Trailing(Tail(bytes))

\* handleIncomingData() with the bytes of one delivery, noted in hist.own
RxTick(bytes) ==
    /\ neg.pc = "idle"
    /\ \/ bytes # <<>> /\ Head(bytes) = SYSEX_START
       \/ \E all \in {eng["M"].incomingBuffer \o bytes} :
              Stray(all) <= MaxStray /\ Trailing(all) <= MaxStray
    /\ eng' = [eng EXCEPT !["M"] = HandleIncomingData(Fresh(@), bytes, now)]
    /\ hist' = [hist EXCEPT !.own = bytes]
    /\ UNCHANGED <<now, t0, link, neg, phase>>

NextRx ==
    \/ \E s \in CfgSpeeds, c \in BOOLEAN : SetSupported("M", s, c)
    \/ \E bytes \in RxInputs : RxTick(bytes)
    \/ \E d \in TickDeltas : Advance(d, MaxElapsed)

SpecRx == InitRx /\ [][NextRx]_vars

(* ------------------------------------------------------------------ *)
(* SpecPush: one engine of any role, configured with at most one speed, *)
(* receiving SpeedPush frames of every speed id                         *)
(* ------------------------------------------------------------------ *)
InitPush == InitWith(DeviceRole, {Zero32}) /\ phase = "push"

\* the host declares the one speed the engine supports
PushConfigure(speed, certified) ==
    /\ eng["M"].localConfig = EmptyConfig
    /\ SetSupported("M", speed, certified)

NextPush ==
    \/ \E s \in SpeedIds, c \in BOOLEAN : PushConfigure(s, c)
    \/ \E id \in SpeedIds : RxTick(BuildSpeedPush(id))
    \/ RxTick(<<>>)
    \/ \E d \in TickDeltas : Advance(d, MaxElapsed)

SpecPush == InitPush /\ [][NextPush]_vars

(* ------------------------------------------------------------------ *)
(* SpecForeign: a negotiateSpeed call during which the only frames that  *)
(* arrive are replies under another manufacturer id                     *)
(* ------------------------------------------------------------------ *)
ForeignReplies ==
    {ForeignFrame(SPEED_ANSWER, <<4, 0, 4, 0>>), ForeignFrame(SPEED_ANSWER, <<4, 0, 0, 0>>),
     ForeignFrame(SPEED_ACK, <<>>), ForeignFrame(SPEED_RESULT, TEST_PATTERN),
     ForeignFrame(SPEED_RESULT2, <<>>)}

InitForeign == InitWith({"MASTER", "ANY"}, {Zero32}) /\ phase = "foreign"

ForeignStep ==
    /\ \E bytes \in IF MayArrive THEN ForeignReplies \cup {<<>>} ELSE {<<>>} :
          StepNegotiate(bytes)
    /\ UNCHANGED <<link, phase>>

NextForeign == NegCall \/ ForeignStep

SpecForeign == InitForeign /\ [][NextForeign]_vars

(* ------------------------------------------------------------------ *)
(* SpecFlood: one engine receiving long runs of keep-alive bytes and a   *)
(* frame that never ends                                                *)
(* ------------------------------------------------------------------ *)
MaxBuffer == 257
FloodLen == 16

\* n bytes of value b
Run(b, n) == [i \in 1..n |-> b]

FloodChunks ==
    {<<ACTIVE_SENSING>>, Run(ACTIVE_SENSING, FloodLen),
     <<SYSEX_START>> \o Run(0, FloodLen - 1)}

InitFlood == InitWith(DeviceRole, {Zero32}) /\ phase = "flood"

\* handleIncomingData() with the bytes of one delivery
FloodTick(bytes) ==
    /\ Len(eng["M"].incomingBuffer) + Len(bytes) <= MaxBuffer
    /\ eng' = [eng EXCEPT !["M"] = HandleIncomingData(Fresh(@), bytes, now)]
    /\ UNCHANGED <<now, t0, link, neg, hist, phase>>

NextFlood == \E bytes \in FloodChunks : FloodTick(bytes)

SpecFlood == InitFlood /\ [][NextFlood]_vars

(* ------------------------------------------------------------------ *)
(* SpecCaps: setSupportedSpeed called any number of times with any      *)
(* value of the speed byte around the defined ids and either flag       *)
(* ------------------------------------------------------------------ *)
CapsIds == (SPEED_1X - 1)..(SPEED_20X + 1)

InitCaps == InitWith({"ANY"}, {Zero32}) /\ phase = "caps"

\* setSupportedSpeed(speed, certified); hist.heard notes that some call passed
\* certified = false for a speed that was certified already
CapsAdd(speed, certified) ==
    /\ eng' = [eng EXCEPT !["M"] = SetSupportedSpeed(Fresh(@), speed, certified)]
    /\ hist' = [hist EXCEPT !.heard =
                    @ \/ (~certified /\ IsCertified(eng["M"].localConfig, speed))]
    /\ UNCHANGED <<now, t0, link, neg, phase>>

NextCaps == \E speed \in CapsIds, certified \in BOOLEAN : CapsAdd(speed, certified)

SpecCaps == InitCaps /\ [][NextCaps]_vars

(* ------------------------------------------------------------------ *)
(* SpecRepeat: the host calls negotiateSpeed, the call returns, and the *)
(* host calls it again on the same engine; hist describes the call in   *)
(* progress or the one that returned last                               *)
(* ------------------------------------------------------------------ *)
InitRepeat == InitWith({"MASTER", "ANY"}, {Zero32}) /\ phase = "first"

\* the second negotiateSpeed(targetSpeed, timeoutMs), after the first returned
Recall ==
    /\ phase = "first"
    /\ neg.pc = "idle"
    /\ hist.result # "none"
    /\ \E targetSpeed \in Targets, timeoutMs \in Timeouts :
       \E e \in {eng["M"]} : \E o \in {NegotiateEntry(Fresh(e))} :
           /\ eng' = [eng EXCEPT !["M"] = o.e]
           /\ neg' = [pc |-> o.pc, targetSpeed |-> targetSpeed, timeoutMs |-> timeoutMs,
                      testSpeed |-> targetSpeed, startTime |-> now]
           /\ hist' = [own |-> o.e.ev, entrySpeed |-> e.currentSpeed,
                       entryBaud |-> e.baud, heard |-> FALSE, rxCommit |-> FALSE,
                       result |-> o.result, fail |-> o.fail]
    /\ phase' = "second"
    /\ UNCHANGED <<now, t0, link>>

NextRepeat == NegCall \/ NegStep \/ Recall

SpecRepeat == InitRepeat /\ [][NextRepeat]_vars

(* ------------------------------------------------------------------ *)
(* SpecKeep: a master and a slave on a lossless in-order link; the      *)
(* slave is configured, time passes, the master pushes a speed, and     *)
(* from then on both hosts tick, in any order, each at least every      *)
(* MaxGap ms; phase holds how long ago each peer ticked                 *)
(* ------------------------------------------------------------------ *)
MaxGap == 50

InitKeep ==
    /\ now \in StartTimes
    /\ t0 = now
    /\ \E rm \in {"MASTER", "ANY"}, rs \in {"SLAVE", "ANY"} :
          eng = [p \in Peers |-> NewEngine(IF p = "M" THEN rm ELSE rs)]
    /\ link = NoBytes
    /\ neg = NegIdle
    /\ hist = HistNone
    /\ phase = [pushed |-> FALSE, M |-> 0, S |-> 0]

\* pushSpeed(speed) on the master, for a speed above 1x that the slave supports
KeepPush(speed) ==
    /\ ~phase.pushed
    /\ speed # SPEED_1X
    /\ HasSpeed(eng["S"].localConfig, speed)
    /\ eng' = [eng EXCEPT !["M"] = PushSpeed(Fresh(@), speed)]
    /\ link' = [link EXCEPT !["S"] = @ \o TxBytes(eng'["M"].ev)]
    /\ phase' = [pushed |-> TRUE, M |-> 0, S |-> 0]
    /\ UNCHANGED <<now, t0, neg, hist>>

\* handleIncomingData() on p: it receives what the link holds for it, and what
\* it sends goes to the other peer
KeepTick(p) ==
    /\ phase.pushed
    /\ eng' = [eng EXCEPT ![p] = HandleIncomingData(Fresh(@), Received(p), now)]
    /\ link' = [q \in Peers |-> IF q = p THEN Remaining(p)
                                ELSE link[q] \o TxBytes(eng'[p].ev)]
    /\ phase' = [phase EXCEPT ![p] = 0]
    /\ UNCHANGED <<now, t0, neg, hist>>

\* d ms pass with neither peer left without a tick for more than MaxGap ms
KeepAdvance(d) ==
    /\ phase.pushed
    /\ phase.M + d <= MaxGap
    /\ phase.S + d <= MaxGap
    /\ Elapsed + d <= MaxElapsed + WATCHDOG_MS + 2 * MaxGap
    /\ now' = Add32(now, d)
    /\ phase' = [phase EXCEPT !.M = @ + d, !.S = @ + d]
    /\ UNCHANGED <<t0, eng, link, neg, hist>>

NextKeep ==
    \/ ~phase.pushed /\ \E speed \in CfgSpeeds, c \in BOOLEAN : SetSupported("S", speed, c)
    \/ ~phase.pushed /\ \E d \in TickDeltas : Advance(d, MaxElapsed)
    \/ \E speed \in CfgSpeeds : KeepPush(speed)
    \/ \E p \in Peers : KeepTick(p)
    \/ \E d \in {MaxGap \div 2, MaxGap} : KeepAdvance(d)

SpecKeep == InitKeep /\ [][NextKeep]_vars

(* ------------------------------------------------------------------ *)
(* Properties                                                          *)
(* ------------------------------------------------------------------ *)
M == eng["M"]
S == eng["S"]

\* the negotiateSpeed call has returned
Returned == neg.pc = "idle" /\ hist.result # "none"

\* ev transmitted a complete frame carrying command cmd
SentCommand(ev, cmd) ==
    \E i \in 1..Len(SentFrames(ev)) :
        Len(SentFrames(ev)[i]) >= 7 /\ SentFrames(ev)[i][7] = cmd

\* ev holds a reconfiguration of the transport to rate, followed by nothing
\* that would undo it
LastBaud(ev) == Only(ev, "baud")[Len(Only(ev, "baud"))].n

\* C1: in every state reached through ticks, pushes, set-up calls, keep-alives,
\* received bytes and a negotiateSpeed call, the transport's bit rate is the rate
\* of the engine's current speed, and every step that changes the current speed
\* reconfigures the transport, last of all to the rate of the new speed.
BaudFollowsSpeed ==
    /\ [](M.baud = GetBaudRate(M.currentSpeed))
    /\ [][eng'["M"].currentSpeed # M.currentSpeed
            => /\ Only(eng'["M"].ev, "baud") # <<>>
               /\ LastBaud(eng'["M"].ev) = GetBaudRate(eng'["M"].currentSpeed)]_vars

\* a negotiation through the live test has left the engine at 4x, 125000 baud
BaudFollowsSpeedSeen ==
    /\ Returned
    /\ hist.result = "true"
    /\ Committed(hist.own) = <<SPEED_5X, SPEED_4X, SPEED_4X>>
    /\ M.currentSpeed = SPEED_4X
    /\ M.baud = 125000

\* the peer "S" has marked the target of the call supported (and certified or not)
SlaveOffers(certified) ==
    /\ neg.targetSpeed # SPEED_1X
    /\ HasSpeed(S.localConfig, neg.targetSpeed)
    /\ IsCertified(S.localConfig, neg.targetSpeed) = certified

\* replies reach the master before its deadlines: a reply takes one poll of 1 ms
InTime == neg.timeoutMs >= 2

\* C2: a master at 1x that negotiates a target other than 1x with a slave that
\* marks the target supported and certified, replies arriving in time, returns
\* success without having sent SPEED_TEST or SPEED_TEST2, both ends at the target.
CertifiedPath ==
    (Returned /\ hist.entrySpeed = SPEED_1X /\ SlaveOffers(TRUE) /\ InTime)
        => /\ hist.result = "true"
           /\ ~SentCommand(hist.own, SPEED_TEST)
           /\ ~SentCommand(hist.own, SPEED_TEST2)
           /\ M.currentSpeed = neg.targetSpeed
           /\ S.currentSpeed = neg.targetSpeed

\* the certified negotiation of 20x has returned success, both ends at 20x
CertifiedPathSeen ==
    /\ Returned
    /\ SlaveOffers(TRUE)
    /\ InTime
    /\ hist.result = "true"
    /\ neg.targetSpeed = SPEED_20X
    /\ Committed(hist.own) = <<SPEED_20X>>
    /\ M.currentSpeed = SPEED_20X
    /\ S.currentSpeed = SPEED_20X

\* C3: a master at 1x that negotiates a target the slave supports uncertified,
\* the slave also supporting the next higher speed, replies arriving in time,
\* returns success; the master switched to the test speed first and to the target
\* after it, and on return both ends are at the target and the slave's test
\* state is IDLE.
LiveTestPath ==
    (/\ Returned
     /\ hist.entrySpeed = SPEED_1X
     /\ SlaveOffers(FALSE)
     /\ neg.targetSpeed < SPEED_20X
     /\ HasSpeed(S.localConfig, GetNextHigherSpeed(neg.targetSpeed))
     /\ InTime)
        => /\ hist.result = "true"
           /\ Len(Committed(hist.own)) >= 2
           /\ Committed(hist.own)[1] = neg.targetSpeed + 1
           /\ \A i \in 2..Len(Committed(hist.own)) :
                 Committed(hist.own)[i] = neg.targetSpeed
           /\ M.currentSpeed = neg.targetSpeed
           /\ S.currentSpeed = neg.targetSpeed
           /\ S.testState = "IDLE"

\* the live test of 4x at 5x has returned success, the slave back in IDLE at 4x
LiveTestPathSeen ==
    /\ Returned
    /\ SlaveOffers(FALSE)
    /\ hist.result = "true"
    /\ neg.targetSpeed = SPEED_4X
    /\ SentCommand(hist.own, SPEED_TEST)
    /\ SentCommand(hist.own, SPEED_TEST2)
    /\ Committed(hist.own)[1] = SPEED_5X
    /\ M.currentSpeed = SPEED_4X
    /\ S.currentSpeed = SPEED_4X
    /\ S.baud = 125000
    /\ S.testState = "IDLE"

\* the frames of the slave's three replies, byte for byte
AckFrame == <<240, 0, 32, 60, 0, 0, 19, 247>>
ResultFrame == <<240, 0, 32, 60, 0, 0, 21, 85, 85, 85, 85, 0, 0, 0, 0, 247>>
Result2Frame == <<240, 0, 32, 60, 0, 0, 23, 247>>

\* bytes without the Active Sensing bytes among them
RECURSIVE SansKeepAlive(_)
SansKeepAlive(bytes) ==
    IF bytes = <<>> THEN <<>>
    ELSE (IF Head(bytes) = 254 THEN <<>> ELSE <<Head(bytes)>>)
             \o SansKeepAlive(Tail(bytes))

\* the slave was IDLE, has the target, and the request calls for the live test
SlaveAsked ==
    /\ phase \in {"neg", "test", "test2"}
    /\ neg.targetSpeed # SPEED_1X
    /\ HasSpeed(S.localConfig, neg.targetSpeed)
    /\ (~IsCertified(S.localConfig, neg.targetSpeed) \/ neg.testSpeed # neg.targetSpeed)

\* C4: an IDLE slave that has the target, asked for a live test, answers
\* SPEED_NEG, SPEED_TEST and SPEED_TEST2 with the frames SPEED_ACK, SPEED_RESULT
\* (same pattern) and SPEED_RESULT2 in that order and with no other frame; it
\* is in WAITING_FOR_TEST at its old speed after the first, in WAITING_FOR_TEST2
\* at the test speed after the second, and IDLE at the target speed and rate
\* after the third. Besides the three frames it transmits nothing but Active
\* Sensing bytes, which the tick's keep-alive timer may add.
SlaveTestSequence ==
    SlaveAsked =>
        /\ phase = "neg" =>
              /\ SentFrames(hist.own) = <<AckFrame>>
              /\ SansKeepAlive(TxBytes(hist.own)) = AckFrame
              /\ S.testState = "WAITING_FOR_TEST"
              /\ S.currentSpeed = hist.entrySpeed
              /\ S.baud = hist.entryBaud
        /\ phase = "test" =>
              /\ SentFrames(hist.own) = <<AckFrame, ResultFrame>>
              /\ SansKeepAlive(TxBytes(hist.own)) = AckFrame \o ResultFrame
              /\ S.testState = "WAITING_FOR_TEST2"
              /\ S.currentSpeed = neg.testSpeed
        /\ phase = "test2" =>
              /\ SentFrames(hist.own) = <<AckFrame, ResultFrame, Result2Frame>>
              /\ SansKeepAlive(TxBytes(hist.own))
                    = AckFrame \o ResultFrame \o Result2Frame
              /\ S.testState = "IDLE"
              /\ S.currentSpeed = neg.targetSpeed
              /\ S.baud = GetBaudRate(neg.targetSpeed)

\* the slave has gone through the test of 4x at 5x and sent a keep-alive on the way
SlaveTestSequenceSeen ==
    /\ SlaveAsked
    /\ phase = "test2"
    /\ neg.testSpeed = SPEED_5X
    /\ neg.targetSpeed = SPEED_4X
    /\ S.currentSpeed = SPEED_4X
    /\ S.baud = 125000
    /\ S.testState = "IDLE"
    /\ TxBytes(hist.own) # SansKeepAlive(TxBytes(hist.own))

\* C4 as stated: the slave transmits the three frames and nothing else
SlaveTestSequenceExact ==
    (SlaveAsked /\ phase = "test2")
        => TxBytes(hist.own) = AckFrame \o ResultFrame \o Result2Frame

\* the time since the last received byte, once the bytes of this tick are in
SilenceAfter(bytes) ==
    Sub32(now, ProcessBytes(Fresh(M), bytes, now).lastMessageTime)

\* C5: a tick that receives nothing while the engine is above 1x goes to 1x
\* (current speed 1x, 31250 baud, speed-changed callback with 1x) if and only if
\* more than 300 ms have passed since the last received byte; at 300 ms or less
\* it leaves speed and rate as they are.
WatchdogThreshold ==
    [][(Tick("M", <<>>) /\ M.currentSpeed # SPEED_1X)
         => IF Gt32(SilenceAfter(<<>>), 300)
            THEN /\ eng'["M"].currentSpeed = SPEED_1X
                 /\ eng'["M"].baud = 31250
                 /\ Only(eng'["M"].ev, "changed") = <<EvChanged(SPEED_1X)>>
            ELSE /\ eng'["M"].currentSpeed = M.currentSpeed
                 /\ eng'["M"].baud = M.baud
                 /\ Only(eng'["M"].ev, "changed") = <<>>]_vars

\* a tick 301 ms after construction, nothing received since, has gone back to 1x
WatchdogThresholdSeen ==
    /\ phase = "host"
    /\ now = U32(0, 301)
    /\ M.lastMessageTime = Zero32
    /\ M.currentSpeed = SPEED_1X
    /\ M.baud = 31250
    /\ M.ev = <<EvBaud(31250), EvChanged(SPEED_1X)>>

\* C6: once the peer is silent for good, an engine above 1x whose host keeps
\* ticking while the clock runs is eventually at 1x with the transport at 31250.
SilenceReverts ==
    (phase = "silent" /\ M.currentSpeed # SPEED_1X)
        ~> (M.currentSpeed = SPEED_1X /\ M.baud = 31250)

\* bytes came in 250 ms or more after construction, and a tick of the silent
\* phase, later than the model lets the live phase run, has gone back to 1x
SilenceRevertsSeen ==
    /\ phase = "silent"
    /\ Sub32(M.lastMessageTime, t0).lo >= 250
    /\ M.ev = <<EvBaud(31250), EvChanged(SPEED_1X)>>
    /\ M.currentSpeed = SPEED_1X
    /\ M.baud = 31250
    /\ Only(M.ev, "changed") = <<EvChanged(SPEED_1X)>>

\* no wait of the call in progress has outlived its deadline
WithinDeadline ==
    /\ neg.pc \in {"waitAnswer", "waitAck"}
          => ~Gt32(Sub32(now, neg.startTime), neg.timeoutMs)
    /\ neg.pc \in {"waitResult", "waitResult2"}
          => ~Gt32(Sub32(now, neg.startTime), 30)

\* C7: whatever the target, the timeout and the peer's bytes, a negotiateSpeed
\* call returns; none of its waits runs past its deadline; and if no byte
\* arrived during the call it returns false.
NegotiateTerminates ==
    /\ [](WithinDeadline)
    /\ []((Returned /\ ~hist.heard) => hist.result = "false")
    /\ (neg.pc # "idle") ~> Returned

\* a call with a 3 ms timeout has returned false 3 ms after it began, the peer silent
NegotiateTerminatesSeen ==
    /\ Returned
    /\ ~hist.heard
    /\ hist.result = "false"
    /\ hist.fail = "no_answer"
    /\ neg.timeoutMs = 3
    /\ Sub32(now, neg.startTime) = U32(0, 3)

\* C8: a call that switched to the test speed and then did not get SPEED_RESULT,
\* or SPEED_RESULT2, within 30 ms returns false with the engine at 1x and the
\* transport at 31250; a call that got as far as SPEED_TEST fails in no other way.
TestFailureReverts ==
    /\ (Returned /\ hist.fail \in {"no_result", "no_result2"})
          => /\ hist.result = "false"
             /\ Committed(hist.own) = <<neg.testSpeed, SPEED_1X>>
             /\ Sub32(now, neg.startTime) = U32(0, 30)
             /\ M.currentSpeed = SPEED_1X
             /\ M.baud = 31250
    /\ (Returned /\ SentCommand(hist.own, SPEED_TEST) /\ hist.result = "false")
          => hist.fail \in {"no_result", "no_result2"}

\* a live test got SPEED_RESULT but not SPEED_RESULT2 and went back to 1x
TestFailureRevertsSeen ==
    /\ Returned
    /\ hist.fail = "no_result2"
    /\ SentCommand(hist.own, SPEED_TEST2)
    /\ Committed(hist.own) = <<SPEED_5X, SPEED_1X>>
    /\ M.currentSpeed = SPEED_1X
    /\ M.baud = 31250

\* the call returned because the answer it received lacks the target
Unsupported == Returned /\ hist.fail = "unsupported" /\ neg.targetSpeed # SPEED_1X

\* C9: a call whose answer does not advertise the target returns false, has not
\* sent SPEED_NEG and has itself switched speed nowhere; speed and rate on return
\* are those at the call unless the receive path polled during the wait switched
\* (a SPEED_PUSH received, or the watchdog going back to 1x).
UnsupportedTarget ==
    Unsupported
        => /\ hist.result = "false"
           /\ ~SentCommand(hist.own, SPEED_NEG)
           /\ Committed(hist.own) = <<>>
           /\ ~hist.rxCommit
                 => (M.currentSpeed = hist.entrySpeed /\ M.baud = hist.entryBaud)

\* a call for 20x got an answer without 20x and returned with nothing changed
UnsupportedTargetSeen ==
    /\ Unsupported
    /\ neg.targetSpeed = SPEED_20X
    /\ hist.heard
    /\ ~hist.rxCommit
    /\ SentFrames(hist.own) = <<BuildSpeedReq>>
    /\ M.currentSpeed = hist.entrySpeed

\* C9 as stated: speed and rate on return are those at the call
UnsupportedTargetUnchanged ==
    Unsupported
        => /\ hist.result = "false"
           /\ ~SentCommand(hist.own, SPEED_NEG)
           /\ M.currentSpeed = hist.entrySpeed
           /\ M.baud = hist.entryBaud

\* C10: pushSpeed(speed) on a MASTER or ANY engine transmits the one frame
\* F0 00 20 3C 00 00 20 <speed> F7 at the old rate and then switches to speed and
\* its rate, with no receive and no wait; on a SLAVE it transmits nothing and
\* changes nothing.
PushCommits ==
    [][\A s \in PushSpeeds :
          Push(s) =>
             IF M.role = "SLAVE"
             THEN eng'["M"] = Fresh(M)
             ELSE /\ eng'["M"].ev = <<EvTx(<<240, 0, 32, 60, 0, 0, 32, s, 247>>, M.baud),
                                      EvBaud(GetBaudRate(s)), EvChanged(s)>>
                  /\ eng'["M"].currentSpeed = s
                  /\ eng'["M"].baud = GetBaudRate(s)
                  /\ eng'["M"].incomingBuffer = M.incomingBuffer
                  /\ now' = now]_vars

\* a MASTER has pushed 8x from 1x: frame sent at 31250, transport now at 250000
PushCommitsSeen ==
    /\ phase = "host"
    /\ M.role = "MASTER"
    /\ M.ev = <<EvTx(<<240, 0, 32, 60, 0, 0, 32, 7, 247>>, 31250),
                EvBaud(250000), EvChanged(SPEED_8X)>>
    /\ M.currentSpeed = SPEED_8X
    /\ M.baud = 250000

\* an engine that has taken in bytes at time t and done nothing else: only
\* incomingBuffer_ and lastMessageTime_ differ from e
Noted(e, buffer, t) ==
    [Fresh(e) EXCEPT !.incomingBuffer = buffer, !.lastMessageTime = t]

\* the tick just taken delivered exactly these bytes
Delivered(bytes) == hist.own = bytes

\* C11: a tick that receives the valid frame SpeedPush(id), id in 2..11, on an
\* engine of any role: if localConfig_ has the speed, the engine commits to it
\* (currentSpeed_ = id, transport at the rate of id, onSpeedChanged(id) once) and
\* transmits no frame; otherwise the frame does nothing: no commit, no callback,
\* no frame, and the engine ends the tick exactly as the tick's timers leave an
\* engine that has only buffered the bytes and noted their time.
PushReceived ==
    [][\A id \in SpeedIds \ {SPEED_1X} :
          Delivered(BuildSpeedPush(id))' /\ RxTick(BuildSpeedPush(id)) =>
             IF HasSpeed(M.localConfig, id)
             THEN /\ eng'["M"].currentSpeed = id
                  /\ eng'["M"].baud = GetBaudRate(id)
                  /\ Committed(eng'["M"].ev) = <<id>>
                  /\ Only(eng'["M"].ev, "baud") = <<EvBaud(GetBaudRate(id))>>
                  /\ SentFrames(eng'["M"].ev) = <<>>
                  /\ eng'["M"].testState = M.testState
             ELSE /\ eng'["M"] = CheckTimeouts(Noted(M, BuildSpeedPush(id), now), now)
                  /\ eng'["M"].currentSpeed = M.currentSpeed
                  /\ eng'["M"].baud = M.baud
                  /\ Only(eng'["M"].ev, "tx") = eng'["M"].ev
                  /\ SentFrames(eng'["M"].ev) = <<>>]_vars

\* a MASTER that supports 20x has just been pushed to it from 1x
PushReceivedSeen ==
    /\ phase = "push"
    /\ M.role = "MASTER"
    /\ Delivered(BuildSpeedPush(SPEED_20X))
    /\ HasSpeed(M.localConfig, SPEED_20X)
    /\ M.ev = <<EvBaud(625000), EvChanged(SPEED_20X)>>
    /\ M.currentSpeed = SPEED_20X

\* C12: after construction with any role and after any setSupportedSpeed calls,
\* localConfig_ has 1x and has it certified; a newly constructed engine is at 1x.
\* (States the claim; hasSpeed and isCertified answer false for 1x.)
FloorSupported ==
    /\ M = NewEngine(M.role) => M.currentSpeed = SPEED_1X
    /\ HasSpeed(M.localConfig, SPEED_1X)
    /\ IsCertified(M.localConfig, SPEED_1X)

\* C13: an engine at any speed that receives the valid frame SpeedPush(1x)
\* commits to 1x: afterwards currentSpeed_ is 1x and the transport is at 31250.
\* (States the claim; the handler asks hasSpeed(1x), which is false.)
PushToFloor ==
    [][Delivered(BuildSpeedPush(SPEED_1X))' /\ RxTick(BuildSpeedPush(SPEED_1X)) =>
          /\ eng'["M"].currentSpeed = SPEED_1X
          /\ eng'["M"].baud = GetBaudRate(SPEED_1X)]_vars

\* C14: a master that negotiates 1x with a slave whose replies arrive in time
\* returns success having sent SPEED_REQ and SPEED_NEG(1x, 1x) and no SPEED_TEST,
\* both ends at 1x.
\* (States the claim; the master finds 1x missing from the answer and gives up.)
FloorNegotiation ==
    (Returned /\ neg.targetSpeed = SPEED_1X /\ InTime)
        => /\ hist.result = "true"
           /\ SentFrames(hist.own) = <<BuildSpeedReq, BuildSpeedNeg(SPEED_1X, SPEED_1X)>>
           /\ M.currentSpeed = SPEED_1X
           /\ S.currentSpeed = SPEED_1X

\* C15: a tick that receives the valid frame SPEED_REQ: an engine whose role is
\* not MASTER transmits one frame, F0 00 20 3C 00 00 11 m1 m2 c1 c2 F7 with the
\* four bytes of its localConfig_, then calls onSpeedRequest once, and keeps its
\* speed, bit rate, test state and capabilities; a MASTER sends no frame, calls
\* nothing, and ends the tick exactly as the tick's timers leave an engine that
\* has only buffered the bytes.
RequestAnswered ==
    [][Delivered(BuildSpeedReq)' /\ RxTick(BuildSpeedReq) =>
          /\ eng'["M"].currentSpeed = M.currentSpeed
          /\ eng'["M"].baud = M.baud
          /\ eng'["M"].testState = M.testState
          /\ eng'["M"].localConfig = M.localConfig
          /\ Committed(eng'["M"].ev) = <<>>
          /\ IF M.role # "MASTER"
             THEN /\ SentFrames(eng'["M"].ev) =
                        << <<240, 0, 32, 60, 0, 0, 17, M.localConfig.mask1,
                             M.localConfig.mask2, M.localConfig.cert1,
                             M.localConfig.cert2, 247>> >>
                  /\ Only(eng'["M"].ev, "request") = <<EvRequest>>
                  /\ eng'["M"].ev[1].t = "tx" /\ eng'["M"].ev[2] = EvRequest
             ELSE /\ SentFrames(eng'["M"].ev) = <<>>
                  /\ Only(eng'["M"].ev, "request") = <<>>
                  /\ eng'["M"] = CheckTimeouts(Noted(M, BuildSpeedReq, now), now)]_vars

\* an engine of role ANY that supports 4x certified has answered a request
RequestAnsweredSeen ==
    /\ phase = "rx"
    /\ M.role = "ANY"
    /\ Delivered(BuildSpeedReq)
    /\ M.ev = <<EvTx(<<240, 0, 32, 60, 0, 0, 17, 4, 0, 4, 0, 247>>, 31250), EvRequest>>
    /\ M.testState = "IDLE"

\* C16: a tick that receives a SysEx candidate that is no frame of the protocol
\* (another manufacturer id, fewer than 8 bytes, an unknown command id, or no
\* F7) commits nothing, calls nothing, sends no frame and keeps the test state:
\* the engine ends the tick exactly as the tick's timers leave an engine that
\* has only buffered the bytes.
MalformedInvisible ==
    [][\A bytes \in RxMalformed :
          Delivered(bytes)' /\ RxTick(bytes) =>
             /\ eng'["M"] = CheckTimeouts(Noted(M, bytes, now), now)
             /\ eng'["M"].currentSpeed = M.currentSpeed
             /\ eng'["M"].testState = M.testState
             /\ Only(eng'["M"].ev, "tx") = eng'["M"].ev
             /\ SentFrames(eng'["M"].ev) = <<>>]_vars

\* a SLAVE waiting for SPEED_TEST2 at 4x has received a SPEED_TEST2 under
\* another manufacturer id and still waits at 4x
MalformedInvisibleSeen ==
    /\ phase = "rx"
    /\ M.role = "SLAVE"
    /\ Delivered(<<240, 0, 32, 61, 0, 0, 22, 247>>)
    /\ M.incomingBuffer = <<240, 0, 32, 61, 0, 0, 22, 247>>
    /\ M.testState = "WAITING_FOR_TEST2"
    /\ M.currentSpeed = SPEED_4X

\* C17: a tick that receives a frame with the right prefix and a handled command
\* id but one byte longer than the command's length runs no handler: nothing is
\* sent and no state changes beyond the buffered bytes and their time.
\* (States the claim; the handlers test size() >= n and accept longer frames.)
OverlongRejected ==
    [][\A bytes \in RxOverlong :
          Delivered(bytes)' /\ RxTick(bytes) =>
             eng'["M"] = CheckTimeouts(Noted(M, bytes, now), now)]_vars

\* the last frame begun has ended: the reassembler is between frames
BetweenFrames(e) ==
    \E i \in 1..Len(e.incomingBuffer) : e.incomingBuffer[i] = SYSEX_END

\* C18: bytes received after a frame's F7 and before the next F0, a further F7
\* among them, run no handler: the tick sends no frame, commits nothing and
\* leaves every field but the buffered bytes and their time as the tick's timers
\* alone would.
\* (States the claim; every F7 dispatches whatever the buffer holds.)
DispatchedOnce ==
    [][\A bytes \in RxStray :
          Delivered(bytes)' /\ RxTick(bytes) /\ BetweenFrames(M) =>
             [eng'["M"] EXCEPT !.incomingBuffer = <<>>]
                 = CheckTimeouts(Noted(M, <<>>, now), now)]_vars

\* C19: incomingBuffer_ never holds more than 256 bytes, whatever is received.
\* (States the claim; processIncomingByte appends without any limit.)
BufferBounded == Len(M.incomingBuffer) <= 256

\* C20: whenever the watchdog reverts the engine to 1x (a tick without bytes that
\* takes it from a higher speed to 1x), the test state is IDLE afterwards.
\* (States the claim; checkTimeouts does not touch testState_.)
WatchdogResetsTest ==
    [][(Tick("M", <<>>) /\ M.currentSpeed # SPEED_1X
          /\ eng'["M"].currentSpeed = SPEED_1X)
         => eng'["M"].testState = "IDLE"]_vars

\* how many times ev transmitted the single byte 0xFE
KeepAlives(ev) ==
    Cardinality({i \in 1..Len(ev) : ev[i] = EvTx(<<ACTIVE_SENSING>>, ev[i].n)})

\* C21: an operation of the host (sendActiveSense, a tick with or without bytes,
\* a push, a set-up call) that leaves the engine at 1x has transmitted no byte
\* 0xFE and has left lastActiveSenseTime_ alone; sendActiveSense at 1x does
\* nothing at all; sendActiveSense above 1x transmits the one byte FE, notes the
\* time and changes nothing else.
NoKeepAliveAtBase ==
    /\ [][eng'["M"].currentSpeed = SPEED_1X
            => /\ KeepAlives(eng'["M"].ev) = 0
               /\ eng'["M"].lastActiveSenseTime = M.lastActiveSenseTime]_vars
    /\ [][ActiveSense =>
             IF M.currentSpeed = SPEED_1X
             THEN eng'["M"] = Fresh(M)
             ELSE eng'["M"] = [M EXCEPT !.ev = <<EvTx(<<254>>, M.baud)>>,
                                        !.lastActiveSenseTime = now]]_vars

\* a tick that received a byte 301 ms after construction, at 1x, with the last
\* keep-alive time still 0: nothing was transmitted
NoKeepAliveAtBaseSeen ==
    /\ phase = "host"
    /\ M.currentSpeed = SPEED_1X
    /\ now = U32(0, 301)
    /\ M.lastMessageTime = now
    /\ M.lastActiveSenseTime = Zero32
    /\ M.ev = <<>>

\* C22: a tick, whatever it receives: if the engine is above 1x once the bytes
\* are handled and the watchdog has not reverted it, and more than 250 ms have
\* passed since lastActiveSenseTime_, the tick transmits the byte FE exactly once,
\* as the last thing it sends, and sets lastActiveSenseTime_ to now; at 250 ms or
\* less it transmits no FE and leaves the time alone; a tick that ends at 1x, the
\* watchdog having reverted it or a frame having taken it there, transmits no FE.
KeepAliveRule ==
    [][RxTick(hist'.own) =>
             IF eng'["M"].currentSpeed # SPEED_1X
                /\ Gt32(Sub32(now, M.lastActiveSenseTime), 250)
             THEN /\ KeepAlives(eng'["M"].ev) = 1
                  /\ eng'["M"].ev[Len(eng'["M"].ev)] = EvTx(<<254>>, eng'["M"].baud)
                  /\ eng'["M"].lastActiveSenseTime = now
             ELSE /\ KeepAlives(eng'["M"].ev) = 0
                  /\ eng'["M"].lastActiveSenseTime = M.lastActiveSenseTime]_vars

\* an engine at 4x has received a byte 301 ms after construction, no keep-alive
\* sent before: the tick has sent FE and noted the time
KeepAliveRuleSeen ==
    /\ phase = "rx"
    /\ Delivered(<<254>>)
    /\ M.currentSpeed = SPEED_4X
    /\ now = U32(0, 301)
    /\ M.ev = <<EvTx(<<254>>, 125000)>>
    /\ M.lastActiveSenseTime = now

\* the bits of a byte
Bits == 0..7

\* C23: after any sequence of setSupportedSpeed calls every certification bit
\* set in cert1/cert2 is set in mask1/mask2 too, mask1 and cert1 use bits 0..6
\* only and mask2 and cert2 bits 0..2 only, and no call clears a bit of any of
\* the four bytes, a call with certified = false for a certified speed included.
CapsWellFormed ==
    /\ [](/\ \A k \in Bits : TestBit(M.localConfig.cert1, k) => TestBit(M.localConfig.mask1, k)
          /\ \A k \in Bits : TestBit(M.localConfig.cert2, k) => TestBit(M.localConfig.mask2, k)
          /\ M.localConfig.mask1 < Pow2(7) /\ M.localConfig.cert1 < Pow2(7)
          /\ M.localConfig.mask2 < Pow2(3) /\ M.localConfig.cert2 < Pow2(3))
    /\ [][eng'["M"].localConfig # M.localConfig =>
             \A f \in {"mask1", "mask2", "cert1", "cert2"}, k \in Bits :
                TestBit(M.localConfig[f], k) => TestBit(eng'["M"].localConfig[f], k)]_vars

\* 2x and 16x are certified, 4x is supported, and some call has named a
\* certified speed with certified = false
CapsWellFormedSeen ==
    /\ phase = "caps"
    /\ hist.heard
    /\ M.localConfig = [mask1 |-> 5, mask2 |-> 2, cert1 |-> 1, cert2 |-> 2]

\* C24: a tick in which an engine that is not MASTER receives SPEED_NEG(4x, 4x)
\* while it has 4x certified (the path without test) leaves the test state
\* IDLE, whatever it was before.
\* (States the claim; the path calls setSpeed and leaves testState_ as it was.)
DirectCommitIdle ==
    [][(/\ Tick("M", BuildSpeedNeg(SPEED_4X, SPEED_4X))
        /\ M.role # "MASTER"
        /\ IsCertified(M.localConfig, SPEED_4X))
         => eng'["M"].testState = "IDLE"]_vars

\* C25: a tick in which an engine that is not MASTER and is in WAITING_FOR_TEST
\* receives a 16-byte SPEED_TEST frame whose payload is not 55 55 55 55 00 00 00
\* 00 commits to 1x (transport at 31250, onSpeedChanged(1x)), goes to IDLE and
\* transmits no frame.
BadPatternReverts ==
    [][(SlaveBadTest /\ S.testState = "WAITING_FOR_TEST")
         => /\ eng'["S"].currentSpeed = SPEED_1X
            /\ eng'["S"].baud = 31250
            /\ eng'["S"].testState = "IDLE"
            /\ eng'["S"].ev = <<EvBaud(31250), EvChanged(SPEED_1X)>>
            /\ SentFrames(eng'["S"].ev) = <<>>]_vars

\* a slave pushed to 4x and then asked to test 20x at 5x has received a damaged
\* test frame and is back at 1x, IDLE
BadPatternRevertsSeen ==
    /\ phase = "bad"
    /\ hist.entrySpeed = SPEED_4X
    /\ neg.testSpeed = SPEED_5X
    /\ neg.targetSpeed = SPEED_20X
    /\ SentFrames(hist.own) = <<AckFrame>>
    /\ S.currentSpeed = SPEED_1X
    /\ S.testState = "IDLE"
    /\ S.pendingTestSpeed = SPEED_5X

\* the engine e has no use for the frame: it is a MASTER, or the frame is a
\* SPEED_TEST or SPEED_TEST2 outside the test state that awaits it, or a
\* SPEED_NEG whose target e does not support
OutOfPlace(e, frame) ==
    \/ e.role = "MASTER"
    \/ frame = BuildSpeedTest /\ e.testState # "WAITING_FOR_TEST"
    \/ frame = BuildSpeedTest2 /\ e.testState # "WAITING_FOR_TEST2"
    \/ frame = BuildSpeedNeg(SPEED_4X, SPEED_4X) /\ ~HasSpeed(e.localConfig, SPEED_4X)

\* C26: a tick that receives SPEED_REQ, SPEED_NEG, SPEED_TEST or SPEED_TEST2 on
\* a MASTER, or SPEED_TEST outside WAITING_FOR_TEST, or SPEED_TEST2 outside
\* WAITING_FOR_TEST2, or SPEED_NEG for an unsupported target, sends no frame,
\* commits nothing and keeps test state and pending speeds: the engine ends the
\* tick exactly as the tick's timers leave an engine that has only buffered the
\* bytes.
GatedFrames ==
    [][\A frame \in {BuildSpeedReq, BuildSpeedNeg(SPEED_4X, SPEED_4X),
                     BuildSpeedTest, BuildSpeedTest2} :
          (Delivered(frame)' /\ RxTick(frame) /\ OutOfPlace(M, frame)) =>
             /\ eng'["M"] = CheckTimeouts(Noted(M, frame, now), now)
             /\ SentFrames(eng'["M"].ev) = <<>>
             /\ Committed(eng'["M"].ev) = <<>>
             /\ eng'["M"].currentSpeed = M.currentSpeed
             /\ eng'["M"].testState = M.testState
             /\ eng'["M"].pendingTestSpeed = M.pendingTestSpeed
             /\ eng'["M"].pendingTargetSpeed = M.pendingTargetSpeed]_vars

\* a SLAVE waiting for SPEED_TEST has received SPEED_TEST2 and still waits
GatedFramesSeen ==
    /\ phase = "rx"
    /\ M.role = "SLAVE"
    /\ Delivered(BuildSpeedTest2)
    /\ M.incomingBuffer = BuildSpeedTest2
    /\ M.testState = "WAITING_FOR_TEST"
    /\ M.ev = <<>>

TwoCommits ==
    (Returned /\ hist.result = "true" /\ SentCommand(hist.own, SPEED_TEST))
        => /\ Committed(hist.own) = <<neg.testSpeed, neg.targetSpeed>>
           /\ Len(Only(hist.own, "baud")) = 2

\* C29: when the slave supports the target (not 1x) uncertified, every SPEED_NEG
\* the master's negotiateSpeed call sends names a test speed above the target
\* that the slave supports; with no such speed the call sends no SPEED_NEG.
\* (States the claim; the master takes the next speed id without consulting
\* the answer.)
ProbeAdvertised ==
    SlaveOffers(FALSE) =>
        \A i \in 1..Len(SentFrames(hist.own)) :
            SentFrames(hist.own)[i][7] = SPEED_NEG =>
                /\ SentFrames(hist.own)[i][8] > neg.targetSpeed
                /\ HasSpeed(S.localConfig, SentFrames(hist.own)[i][8])

\* C30: a negotiateSpeed call that receives only frames whose manufacturer id
\* is not 00 20 3C 00 00 takes none of them for the reply it waits for: it never
\* gets as far as sending SPEED_NEG, and it returns false.
\* (States the claim; the reply parsers look at the command byte and the length
\* only.)
ForeignRepliesIgnored ==
    /\ ~SentCommand(hist.own, SPEED_NEG)
    /\ Returned => hist.result = "false"

\* C31: a negotiateSpeed call that follows an earlier one on the same engine and
\* has received no byte since it sent its SPEED_REQ does not get past the wait
\* for the answer: it sends no SPEED_NEG, and when it returns it has failed for
\* want of an answer.
\* (States the claim; a SPEED_ANSWER that the earlier call left in the receive
\* buffer is found by the later call's first look.)
NoStaleAnswer ==
    (phase = "second" /\ ~hist.heard)
        => /\ ~SentCommand(hist.own, SPEED_NEG)
           /\ neg.pc \in {"idle", "waitAnswer"}
           /\ Returned => hist.fail = "no_answer"

\* C32: an engine of role SLAVE is at every moment at one of the eleven defined
\* speeds, and at a speed other than 1x only if its own capabilities hold that
\* speed, whatever test and target ids the frames it received carried.
\* (States the claim; the test speed of a SPEED_NEG is stored and later
\* committed to without being looked up in the capabilities.)
SlaveSpeedSupported ==
    S.role = "SLAVE"
        => /\ S.currentSpeed \in SpeedIds
           /\ S.currentSpeed = SPEED_1X \/ HasSpeed(S.localConfig, S.currentSpeed)

\* the bit rates at which ev transmitted frame
SentAt(ev, frame) == {ev[i].n : i \in {j \in 1..Len(ev) : ev[j].t = "tx" /\ ev[j].bytes = frame}}

\* C33: in a negotiateSpeed call between a master and a slave, the slave that
\* acts on SPEED_TEST or SPEED_TEST2 (it answers with the result frame) receives
\* at the bit rate at which the master sent that frame, and the master that acts
\* on SPEED_RESULT or SPEED_RESULT2 (its wait ends with success) receives at the
\* bit rate at which the slave sent it.
\* (States the claim; the master switches to the test speed before it sends
\* SPEED_TEST, the slave only when it has received it.)
RatesAgree ==
    [][/\ (phase = "S" /\ SentCommand(eng'["S"].ev, SPEED_RESULT))
              => \E rate \in SentAt(hist.own, BuildSpeedTest) : eng["S"].baud = rate
       /\ (phase = "S" /\ SentCommand(eng'["S"].ev, SPEED_RESULT2))
              => \E rate \in SentAt(hist.own, BuildSpeedTest2) : eng["S"].baud = rate
       /\ (neg.pc = "waitResult" /\ neg'.pc = "waitResult2")
              => \E rate \in SentAt(eng["S"].ev, BuildSpeedResult) : eng["M"].baud = rate
       /\ (neg.pc = "waitResult2" /\ hist'.result = "true")
              => \E rate \in SentAt(eng["S"].ev, BuildSpeedResult2) : eng["M"].baud = rate
      ]_vars

\* C34: once the master has pushed a speed above 1x that the slave supports,
\* at whatever clock value, and both peers tick at least every 50 ms over a
\* lossless link, the master stays above 1x and no tick of either peer reverts
\* to 1x, the master's first tick after the push included.
\* (States the claim; the master's watchdog measures from the last byte it
\* received, which a push does not refresh and which is 0 after construction.)
KeepAliveSustains ==
    phase.pushed
        => /\ M.currentSpeed # SPEED_1X
           /\ \A p \in Peers : \A i \in 1..Len(Committed(eng[p].ev)) :
                  Committed(eng[p].ev)[i] # SPEED_1X

====
